---- MODULE Spec2Model ----
(***************************************************************************)
(* The IQ data server (gin, one goroutine per request) with its global     *)
(* slice iqStore, the CORS middleware and the two routes POST /webhook and *)
(* GET /api/iq-data.                                                       *)
(*                                                                         *)
(* A request is a process: it arrives, passes the middleware, is routed,   *)
(* and its handler runs statement by statement.  iqStore is not protected  *)
(* by any lock, so every read and every write of it is a step of its own   *)
(* and the steps of different requests interleave freely (Spec).  A read   *)
(* takes the whole slice value at once and a slice value is a sequence of  *)
(* its own: torn reads of the slice header and writes into a shared        *)
(* backing array, which the unsynchronised code also allows, are outside   *)
(* the model, so Spec shows a subset of what the races can do.  SeqSpec    *)
(* is the same server driven by clients that wait for each response before *)
(* sending the next request, so that no two requests overlap.              *)
(*                                                                         *)
(* An IQData value is represented by a natural number standing for its     *)
(* (time, real, imaginary) triple; the server never inspects a sample, so  *)
(* every request body carries fresh numbers, which makes each element of   *)
(* the buffer traceable to the batch and position it came from.  0 is the  *)
(* zero value of IQData.                                                   *)
(*                                                                         *)
(* The two clients of the repository are modelled next to the server: the  *)
(* generator (faker/main.go), which posts batches to the server one send   *)
(* at a time while other clients read it (SysSpec), and the visualizer's   *)
(* page script with its polling and its test-data fallback, against a      *)
(* server that answers arbitrarily (VisSpec).                              *)
(***************************************************************************)
EXTENDS Integers, Sequences, FiniteSets, TLC

\* maxDataPoints is 1000 in the source; the model scales it down.
maxDataPoints == 3

\* Number of requests in a run of clients that wait for each response,
\* number of requests in a run of clients that do not wait, and the largest
\* batch a request carries.
MaxReqs == 3
MaxConcReqs == 2
MaxBatch == 4

\* Largest value of the generator's flag -points and number of iterations of
\* its loop in a run.
MaxPoints == 2
MaxSends == 3

\* Number of calls of the visualizer's fetchData in a run, and the length of
\* the longest array the server answers it with.
MaxTicks == 12
MaxServerPoints == 102

\* generateTestData: points added per call, points kept, and the time step
\* (0.5) in tenths.
numPoints == 10
testWindow == 100
testStep == 5

Reqs == 1..MaxReqs

VARIABLES
    iqStore,    \* the global slice: [isNil, elems]
    pc,         \* position of each request in the server
    req,        \* the request: [method, path, body]
    newData,    \* the handler's local newData, after binding
    base,       \* the value of iqStore read by line 56 (append)
    cur,        \* the value of iqStore read by line 60 (re-slice)
    resp,       \* the response written: [status, headers, body]
    nextId,     \* the next fresh sample number
    ver,        \* number of writes of iqStore so far (history)
    snapVer     \* ver at the moment a GET handler read iqStore (history)

\* The generator (faker/main.go)
VARIABLES
    gPc,          \* position of the generator's main
    gPoints,      \* the flag -points
    currentTime,  \* main's currentTime, in tenths
    gData,        \* the batch generated by the current iteration
    gSlot,        \* the request the generator is waiting on
    gBatches      \* every batch generated so far, with what became of it (history)

genVars == <<gPc, gPoints, currentTime, gData, gSlot, gBatches>>

\* The visualizer (the page script)
VARIABLES
    useTestData,  \* the script's useTestData
    statusMessage,\* the script's statusMessage
    iqData,       \* the script's iqData: the times of its points, in tenths
    vPending,     \* fetches sent and not yet answered
    vTicks,       \* calls of fetchData so far
    vRequests,    \* requests sent to the server so far (history)
    vTestRuns     \* executions of generateTestData so far (history)

visVars == <<useTestData, statusMessage, iqData, vPending, vTicks, vRequests, vTestRuns>>

clientVars == <<genVars, visVars>>

vars == <<iqStore, pc, req, newData, base, cur, resp, nextId, ver, snapVer,
          genVars, visVars>>

----
\* Values

Min(a, b) == IF a < b THEN a ELSE b
Max(a, b) == IF a > b THEN a ELSE b

\* A Go slice of IQData: nil or not, and its elements.
Slice(isNil, elems) == [isNil |-> isNil, elems |-> elems]

NilSlice == Slice(TRUE, <<>>)

\* Faulty variant: `var iqStore []IQData`, a nil slice.
EmptyStore_Nil == NilSlice

\* var iqStore = []IQData{}: empty and not nil.
EmptyStore == Slice(FALSE, <<>>)

\* A response body.
Payload(kind, elems, text) == [kind |-> kind, elems |-> elems, text |-> text]
NoBody == Payload("none", <<>>, "")

\* JSON request bodies: an array of elements or an object.  An array element
\* is a sample object or a string.
SampleObj(t) == [kind |-> "object", time |-> t]
StringElem == [kind |-> "string", time |-> 0]
ArrayBody(elems) == [kind |-> "array", elems |-> elems]
ObjectBody == [kind |-> "object", elems |-> <<>>]
NoReqBody == [kind |-> "empty", elems |-> <<>>]

Fresh(from, n) == [i \in 1..n |-> SampleObj(from + i - 1)]

\* The bodies a POST /webhook may carry when nextId = from, each with the
\* number of fresh samples it uses.
Bodies(from) ==
    {[body |-> ArrayBody(Fresh(from, n)), used |-> n] : n \in 0..MaxBatch}
    \cup {[body |-> ArrayBody(Fresh(from, 1) \o <<StringElem>>), used |-> 1],
          [body |-> ObjectBody, used |-> 0]}

Methods == {"POST", "GET", "OPTIONS"}
Paths == {"/webhook", "/api/iq-data"}

NoReq == [method |-> "", path |-> "", body |-> NoReqBody]
NoResp == [status |-> 0, headers |-> <<>>, body |-> NoBody]

----
\* The CORS middleware

HeaderNames == {"Access-Control-Allow-Origin", "Access-Control-Allow-Methods",
                "Access-Control-Allow-Headers", "Access-Control-Allow-Credentials"}

NoHeaders == [h \in HeaderNames |-> ""]

\* Header().Set replaces the value of the header.
SetHeader(h, k, v) == [h EXCEPT ![k] = v]

\* Lines 29-33, in order: the origin is set twice.
CorsHeaders(h) ==
    SetHeader(SetHeader(SetHeader(SetHeader(SetHeader(h,
        "Access-Control-Allow-Origin", "http://localhost:5173"),
        "Access-Control-Allow-Origin", "*"),
        "Access-Control-Allow-Methods", "POST, GET, OPTIONS"),
        "Access-Control-Allow-Headers", "Content-Type, Authorization"),
        "Access-Control-Allow-Credentials", "true")

\* Faulty variant: the middleware without its OPTIONS branch.
AfterMiddleware_NoAbort(method) == "route"

\* Where the middleware sends a request: OPTIONS is aborted with 204,
\* everything else goes on to the router.
AfterMiddleware(method) == IF method = "OPTIONS" THEN "abort" ELSE "route"

\* The router: the two registered routes, 404 for anything else.
Route(method, path) ==
    IF method = "POST" /\ path = "/webhook" THEN "bind"
    ELSE IF method = "GET" /\ path = "/api/iq-data" THEN "get"
    ELSE "notfound"

----
\* POST /webhook

\* Faulty variant: the binding error is ignored.
BindOK_Always(body) == TRUE

\* Faulty variant: an array without elements is refused.
BindOK_NonEmpty(body) ==
    /\ body.kind = "array"
    /\ body.elems # <<>>
    /\ \A i \in 1..Len(body.elems) : body.elems[i].kind = "object"

\* c.ShouldBindJSON(&newData) succeeds: the body is a JSON array whose
\* elements are objects.
BindOK(body) ==
    /\ body.kind = "array"
    /\ \A i \in 1..Len(body.elems) : body.elems[i].kind = "object"

\* The slice the binding leaves in newData.
Decode(body) == [i \in 1..Len(body.elems) |-> body.elems[i].time]

\* Faulty variant: append(newData, iqStore...).
Append_Prepend(s, b) == Slice(s.isNil /\ Len(b) = 0, b \o s.elems)

\* append(s, b...): nil only when s is nil and nothing is appended.
AppendAll(s, b) == Slice(s.isNil /\ Len(b) = 0, s.elems \o b)

\* Faulty variant: the test is off by one.
NeedsTrim_OffByOne(s) == Len(s.elems) > maxDataPoints + 1

\* len(iqStore) > maxDataPoints
NeedsTrim(s) == Len(s.elems) > maxDataPoints

\* s[len(s)-maxDataPoints:] panics when the low bound is negative.
SliceInRange(s) == Len(s.elems) - maxDataPoints >= 0

\* Faulty variant: s[:maxDataPoints], which keeps the oldest elements.
Trim_Head(s) == Slice(FALSE, SubSeq(s.elems, 1, maxDataPoints))

\* s[len(s)-maxDataPoints:]
Trim(s) ==
    Slice(FALSE, SubSeq(s.elems, Len(s.elems) - maxDataPoints + 1, Len(s.elems)))

\* Faulty variant: the handler acknowledges without storing the batch.
AfterBind_AckFirst == "respond"

\* The handler's position after a successful bind: the append of line 56.
AfterBind == "appendRead"

----
\* GET /api/iq-data

\* json.Marshal of a slice: null for a nil slice, an array otherwise.
EncodeJSON(s) ==
    IF s.isNil THEN Payload("null", <<>>, "") ELSE Payload("array", s.elems, "")

----
Init ==
    /\ iqStore = EmptyStore
    /\ pc = [r \in Reqs |-> "new"]
    /\ req = [r \in Reqs |-> NoReq]
    /\ newData = [r \in Reqs |-> <<>>]
    /\ base = [r \in Reqs |-> NilSlice]
    /\ cur = [r \in Reqs |-> NilSlice]
    /\ resp = [r \in Reqs |-> NoResp]
    /\ nextId = 1
    /\ ver = 0
    /\ snapVer = [r \in Reqs |-> 0]
    /\ gPc = "start"
    /\ gPoints = 0
    /\ currentTime = 0
    /\ gData = <<>>
    /\ gSlot = 0
    /\ gBatches = <<>>
    /\ useTestData = FALSE
    /\ statusMessage = "Connecting to server..."
    /\ iqData = <<>>
    /\ vPending = 0
    /\ vTicks = 0
    /\ vRequests = 0
    /\ vTestRuns = 0

Reply(r, status, body) ==
    resp' = [resp EXCEPT ![r] = [status |-> status, headers |-> resp[r].headers,
                                 body |-> body]]

InFlight == {r \in Reqs : pc[r] \notin {"new", "done"}}

\* A client sends the r-th request of the run.
Send(r) ==
    /\ pc[r] = "new"
    /\ IF r = 1 THEN TRUE ELSE pc[r - 1] # "new"
    /\ \/ \E b \in Bodies(nextId) :
            /\ req' = [req EXCEPT ![r] =
                          [method |-> "POST", path |-> "/webhook", body |-> b.body]]
            /\ nextId' = nextId + b.used
       \/ \E m \in Methods, p \in Paths :
            /\ ~(m = "POST" /\ p = "/webhook")
            /\ req' = [req EXCEPT ![r] =
                          [method |-> m, path |-> p, body |-> NoReqBody]]
            /\ nextId' = nextId
    /\ pc' = [pc EXCEPT ![r] = "mw"]
    /\ UNCHANGED <<iqStore, newData, base, cur, resp, ver, snapVer>>
    /\ UNCHANGED clientVars

\* A request arrives while earlier ones may still be served.
Arrive(r) ==
    /\ r <= MaxConcReqs
    /\ Send(r)

\* A request arrives from a client that has received every earlier response.
SeqArrive(r) ==
    /\ InFlight = {}
    /\ Send(r)

\* Lines 28-39: the middleware sets the headers, answers OPTIONS itself.
Middleware(r) ==
    /\ pc[r] = "mw"
    /\ IF AfterMiddleware(req[r].method) = "abort"
       THEN /\ resp' = [resp EXCEPT ![r] =
                   [status |-> 204, headers |-> CorsHeaders(NoHeaders),
                    body |-> NoBody]]
            /\ pc' = [pc EXCEPT ![r] = "done"]
       ELSE /\ resp' = [resp EXCEPT ![r] =
                   [status |-> 0, headers |-> CorsHeaders(NoHeaders),
                    body |-> NoBody]]
            /\ pc' = [pc EXCEPT ![r] = Route(req[r].method, req[r].path)]
    /\ UNCHANGED <<iqStore, req, newData, base, cur, nextId, ver, snapVer>>
    /\ UNCHANGED clientVars

\* No route registered for the method and path: gin answers 404.
NotFound(r) ==
    /\ pc[r] = "notfound"
    /\ Reply(r, 404, Payload("text", <<>>, "404 page not found"))
    /\ pc' = [pc EXCEPT ![r] = "done"]
    /\ UNCHANGED <<iqStore, req, newData, base, cur, nextId, ver, snapVer>>
    /\ UNCHANGED clientVars

\* Lines 43-53: bind the body, 400 when it fails.
Bind(r) ==
    /\ pc[r] = "bind"
    /\ IF BindOK(req[r].body)
       THEN /\ newData' = [newData EXCEPT ![r] = Decode(req[r].body)]
            /\ pc' = [pc EXCEPT ![r] = AfterBind]
            /\ UNCHANGED resp
       ELSE /\ Reply(r, 400, Payload("error", <<>>, "Invalid JSON format"))
            /\ pc' = [pc EXCEPT ![r] = "done"]
            /\ UNCHANGED newData
    /\ UNCHANGED <<iqStore, req, base, cur, nextId, ver, snapVer>>
    /\ UNCHANGED clientVars

\* Line 56, right-hand side: read iqStore.
AppendRead(r) ==
    /\ pc[r] = "appendRead"
    /\ base' = [base EXCEPT ![r] = iqStore]
    /\ pc' = [pc EXCEPT ![r] = "appendWrite"]
    /\ UNCHANGED <<iqStore, req, newData, cur, resp, nextId, ver, snapVer>>
    /\ UNCHANGED clientVars

\* Line 56, assignment: store the appended slice.
AppendWrite(r) ==
    /\ pc[r] = "appendWrite"
    /\ iqStore' = AppendAll(base[r], newData[r])
    /\ ver' = ver + 1
    /\ pc' = [pc EXCEPT ![r] = "trimCheck"]
    /\ UNCHANGED <<req, newData, base, cur, resp, nextId, snapVer>>
    /\ UNCHANGED clientVars

\* Line 59: the length test.
TrimCheck(r) ==
    /\ pc[r] = "trimCheck"
    /\ pc' = [pc EXCEPT ![r] = IF NeedsTrim(iqStore) THEN "trimRead" ELSE "respond"]
    /\ UNCHANGED <<iqStore, req, newData, base, cur, resp, nextId, ver, snapVer>>
    /\ UNCHANGED clientVars

\* Line 60, right-hand side: read iqStore and re-slice it.  A negative low
\* bound panics; gin's recovery middleware answers 500.
TrimRead(r) ==
    /\ pc[r] = "trimRead"
    /\ IF SliceInRange(iqStore)
       THEN /\ cur' = [cur EXCEPT ![r] = iqStore]
            /\ pc' = [pc EXCEPT ![r] = "trimWrite"]
            /\ UNCHANGED resp
       ELSE /\ Reply(r, 500, NoBody)
            /\ pc' = [pc EXCEPT ![r] = "done"]
            /\ UNCHANGED cur
    /\ UNCHANGED <<iqStore, req, newData, base, nextId, ver, snapVer>>
    /\ UNCHANGED clientVars

\* Line 60, assignment: store the re-sliced value.
TrimWrite(r) ==
    /\ pc[r] = "trimWrite"
    /\ iqStore' = Trim(cur[r])
    /\ ver' = ver + 1
    /\ pc' = [pc EXCEPT ![r] = "respond"]
    /\ UNCHANGED <<req, newData, base, cur, resp, nextId, snapVer>>
    /\ UNCHANGED clientVars

\* Line 64: the acknowledgement; the handler returns and its locals die.
Respond(r) ==
    /\ pc[r] = "respond"
    /\ Reply(r, 200, Payload("status", <<>>, "received"))
    /\ pc' = [pc EXCEPT ![r] = "done"]
    /\ newData' = [newData EXCEPT ![r] = <<>>]
    /\ base' = [base EXCEPT ![r] = NilSlice]
    /\ cur' = [cur EXCEPT ![r] = NilSlice]
    /\ UNCHANGED <<iqStore, req, nextId, ver, snapVer>>
    /\ UNCHANGED clientVars

\* Faulty variant: the handler empties the buffer it has just sent.
Get_Drain(r) ==
    /\ pc[r] = "get"
    /\ Reply(r, 200, EncodeJSON(iqStore))
    /\ snapVer' = [snapVer EXCEPT ![r] = ver]
    /\ iqStore' = EmptyStore
    /\ pc' = [pc EXCEPT ![r] = "done"]
    /\ UNCHANGED <<req, newData, base, cur, nextId, ver>>
    /\ UNCHANGED clientVars

\* Lines 68-70: read iqStore and send it as JSON.
Get(r) ==
    /\ pc[r] = "get"
    /\ Reply(r, 200, EncodeJSON(iqStore))
    /\ snapVer' = [snapVer EXCEPT ![r] = ver]
    /\ pc' = [pc EXCEPT ![r] = "done"]
    /\ UNCHANGED <<iqStore, req, newData, base, cur, nextId, ver>>
    /\ UNCHANGED clientVars

Serve(r) ==
    \/ Middleware(r)
    \/ NotFound(r)
    \/ Bind(r)
    \/ AppendRead(r)
    \/ AppendWrite(r)
    \/ TrimCheck(r)
    \/ TrimRead(r)
    \/ TrimWrite(r)
    \/ Respond(r)
    \/ Get(r)

Next == \E r \in Reqs : Arrive(r) \/ Serve(r)

Spec == Init /\ [][Next]_vars

SeqNext == \E r \in Reqs : SeqArrive(r) \/ Serve(r)

SeqSpec == Init /\ [][SeqNext]_vars

----
\* The generator (faker/main.go).  Times are counted in tenths, the step of
\* generateIQData, and a sample is represented by its time: real and
\* imaginary are sin and cos of it.  The rounding of the float64 sums is
\* outside the model.

\* generateIQData(count, startTime): t = startTime + i * 0.1 for i = 0..count-1.
generateIQData(count, startTime) == [i \in 1..count |-> startTime + (i - 1)]

\* Faulty variant: the next batch starts at the last time of this one.
AdvanceTime_Overlap(t, n) == t + n - 1

\* currentTime += float64(*dataPoints) * 0.1
AdvanceTime(t, n) == t + n

\* Faulty variant: log.Fatalf on a failed send.
AfterSend_Fatal(err) == IF err THEN "exit" ELSE "sleep"

\* main after sendToWebhook returned err: the error is only logged.
AfterSend(err) == "sleep"

\* json.Marshal of the batch: an array of sample objects.
Marshal(data) == ArrayBody([i \in 1..Len(data) |-> SampleObj(data[i])])

LastBatch == gBatches[Len(gBatches)]

Resolve(err) ==
    gBatches' = [gBatches EXCEPT ![Len(gBatches)].failed = err]

\* flag.Parse: the batch size of the run.
GenStart ==
    /\ gPc = "start"
    /\ \E n \in -1..MaxPoints : gPoints' = n
    /\ gPc' = "loop"
    /\ UNCHANGED <<currentTime, gData, gSlot, gBatches>>
    /\ UNCHANGED <<iqStore, pc, req, newData, base, cur, resp, nextId, ver, snapVer>>
    /\ UNCHANGED visVars

\* Lines 96 and 99.  make([]IQData, count) panics on a negative count.
GenGenerate ==
    /\ gPc = "loop"
    /\ Len(gBatches) < MaxSends
    /\ IF gPoints < 0
         THEN /\ gPc' = "panic"
              /\ UNCHANGED <<currentTime, gData, gBatches>>
         ELSE /\ gData' = generateIQData(gPoints, currentTime)
              /\ currentTime' = AdvanceTime(currentTime, gPoints)
              /\ gBatches' = Append(gBatches,
                                [start |-> currentTime, data |-> gData',
                                 sends |-> 0, failed |-> FALSE])
              /\ gPc' = "send"
    /\ UNCHANGED <<gPoints, gSlot>>
    /\ UNCHANGED <<iqStore, pc, req, newData, base, cur, resp, nextId, ver, snapVer>>
    /\ UNCHANGED visVars

\* client.Do returns an error and the request never reached the server.
GenSendError ==
    /\ gPc = "send"
    /\ gBatches' = [gBatches EXCEPT ![Len(gBatches)].sends = @ + 1,
                                    ![Len(gBatches)].failed = TRUE]
    /\ gPc' = AfterSend(TRUE)
    /\ UNCHANGED <<gPoints, currentTime, gData, gSlot>>
    /\ UNCHANGED <<iqStore, pc, req, newData, base, cur, resp, nextId, ver, snapVer>>
    /\ UNCHANGED visVars

\* client.Do: the request reaches the server as its r-th request.
GenDeliver(r) ==
    /\ gPc = "send"
    /\ pc[r] = "new"
    /\ IF r = 1 THEN TRUE ELSE pc[r - 1] # "new"
    /\ req' = [req EXCEPT ![r] =
                  [method |-> "POST", path |-> "/webhook", body |-> Marshal(gData)]]
    /\ pc' = [pc EXCEPT ![r] = "mw"]
    /\ gBatches' = [gBatches EXCEPT ![Len(gBatches)].sends = @ + 1]
    /\ gSlot' = r
    /\ gPc' = "wait"
    /\ UNCHANGED <<gPoints, currentTime, gData>>
    /\ UNCHANGED <<iqStore, newData, base, cur, resp, nextId, ver, snapVer>>
    /\ UNCHANGED visVars

\* client.Do returns: the response, or an error when the response was lost.
\* Lines 64-72: an error, or a status other than 200, is the send's failure.
GenReceive ==
    /\ gPc = "wait"
    /\ pc[gSlot] = "done"
    /\ \E lost \in BOOLEAN :
         LET err == lost \/ resp[gSlot].status # 200 IN
         /\ Resolve(err)
         /\ gPc' = AfterSend(err)
    /\ gSlot' = 0
    /\ UNCHANGED <<gPoints, currentTime, gData>>
    /\ UNCHANGED <<iqStore, pc, req, newData, base, cur, resp, nextId, ver, snapVer>>
    /\ UNCHANGED visVars

\* time.Sleep, then the next iteration.
GenSleep ==
    /\ gPc = "sleep"
    /\ gPc' = "loop"
    /\ UNCHANGED <<gPoints, currentTime, gData, gSlot, gBatches>>
    /\ UNCHANGED <<iqStore, pc, req, newData, base, cur, resp, nextId, ver, snapVer>>
    /\ UNCHANGED visVars

\* Another client sends the r-th request of the run; it never posts to
\* /webhook.
SendOther(r) ==
    /\ pc[r] = "new"
    /\ IF r = 1 THEN TRUE ELSE pc[r - 1] # "new"
    /\ \E m \in Methods \ {"POST"}, p \in Paths :
         req' = [req EXCEPT ![r] = [method |-> m, path |-> p, body |-> NoReqBody]]
    /\ pc' = [pc EXCEPT ![r] = "mw"]
    /\ UNCHANGED <<iqStore, newData, base, cur, resp, nextId, ver, snapVer>>
    /\ UNCHANGED clientVars

\* The server with one generator as the only client posting to /webhook.  The
\* generator sends one batch at a time and each send is resolved (answered,
\* or failed) before the next starts; the other clients do not wait for it.
SysNext ==
    \/ GenStart
    \/ GenGenerate
    \/ GenSendError
    \/ GenReceive
    \/ GenSleep
    \/ \E r \in Reqs : GenDeliver(r) \/ SendOther(r) \/ Serve(r)

SysSpec == Init /\ [][SysNext]_vars

----
\* The visualizer (the page script).  A point is represented by its time, in
\* tenths; real and imaginary are functions of it.  The server is whatever
\* answers the fetch: an array of points, a status that is not ok, or
\* nothing (the fetch throws).  updateGraph changes only the drawing.

serverVars == <<iqStore, pc, req, newData, base, cur, resp, nextId, ver, snapVer>>

\* The arrays the server answers with.
ServerData == {[i \in 1..n |-> i - 1] : n \in {0, 1, MaxServerPoints}}

\* Lines 194-207: the new points.
TestData(iq) ==
    LET timeCounter == IF Len(iq) > 0 THEN iq[Len(iq)] + testStep ELSE 0
    IN [i \in 1..numPoints |-> timeCounter + (i - 1) * testStep]

\* Faulty variant: slice(0, n), the first n elements.
SliceLast_First(s, n) == IF Len(s) <= n THEN s ELSE SubSeq(s, 1, n)

\* Array.prototype.slice(-n): the last n elements, or all of them.
SliceLast(s, n) == IF Len(s) <= n THEN s ELSE SubSeq(s, Len(s) - n + 1, Len(s))

\* Line 210: iqData = [...iqData, ...testData].slice(-100)
generateTestData(iq) == SliceLast(iq \o TestData(iq), testWindow)

\* Faulty variant: fetchData without its first branch.
SkipsFetch_Never(u) == FALSE

\* Line 216: if (useTestData) { generateTestData(); return; }
SkipsFetch(u) == u

RunTestData ==
    /\ iqData' = generateTestData(iqData)
    /\ vTestRuns' = vTestRuns + 1

\* fetchData is called (on mount, then by the interval timer) in test mode.
VisTickTest ==
    /\ vTicks < MaxTicks
    /\ SkipsFetch(useTestData)
    /\ vTicks' = vTicks + 1
    /\ RunTestData
    /\ UNCHANGED <<useTestData, statusMessage, vPending, vRequests>>
    /\ UNCHANGED <<serverVars, genVars>>

\* fetchData is called and sends its request; the timer does not wait for
\* the answer of the previous call.
VisTickFetch ==
    /\ vTicks < MaxTicks
    /\ ~SkipsFetch(useTestData)
    /\ vTicks' = vTicks + 1
    /\ vPending' = vPending + 1
    /\ vRequests' = vRequests + 1
    /\ UNCHANGED <<useTestData, statusMessage, iqData, vTestRuns>>
    /\ UNCHANGED <<serverVars, genVars>>

\* Lines 221-228: response.ok and its JSON.
VisResponseOk ==
    /\ vPending > 0
    /\ vPending' = vPending - 1
    /\ \E data \in ServerData : iqData' = data
    /\ statusMessage' = "Connected to server - using real data"
    /\ UNCHANGED <<useTestData, vTicks, vRequests, vTestRuns>>
    /\ UNCHANGED <<serverVars, genVars>>

\* Lines 229-235: the response is not ok.
VisResponseError ==
    /\ vPending > 0
    /\ vPending' = vPending - 1
    /\ useTestData' = TRUE
    /\ statusMessage' = "Server error - using simulated data"
    /\ RunTestData
    /\ UNCHANGED <<vTicks, vRequests>>
    /\ UNCHANGED <<serverVars, genVars>>

\* Lines 236-242: fetch or response.json() threw.
VisException ==
    /\ vPending > 0
    /\ vPending' = vPending - 1
    /\ useTestData' = TRUE
    /\ statusMessage' = "Server unavailable - using simulated data"
    /\ RunTestData
    /\ UNCHANGED <<vTicks, vRequests>>
    /\ UNCHANGED <<serverVars, genVars>>

VisNext ==
    \/ VisTickTest
    \/ VisTickFetch
    \/ VisResponseOk
    \/ VisResponseError
    \/ VisException

VisSpec == Init /\ [][VisNext]_vars

----
\* Vocabulary of the properties

IsPost(r) == req[r].method = "POST" /\ req[r].path = "/webhook"
IsGet(r) == req[r].method = "GET" /\ req[r].path = "/api/iq-data"
IsOptions(r) == req[r].method = "OPTIONS"

\* The body is a JSON array of sample objects.
IsSampleArray(body) ==
    /\ body.kind = "array"
    /\ \A i \in 1..Len(body.elems) : body.elems[i] = SampleObj(body.elems[i].time)

\* The batch a POST carries, when its body is an array of samples.
Batch(r) == [i \in 1..Len(req[r].body.elems) |-> req[r].body.elems[i].time]

ValidPost(r) == IsPost(r) /\ IsSampleArray(req[r].body)

\* The last n elements of s.
LastN(s, n) == [i \in 1..n |-> s[Len(s) - n + i]]

\* A handler is between the append of line 56 and the end of the trim of
\* lines 59-61.
InAppend(r) == pc[r] \in {"trimCheck", "trimRead", "trimWrite"}

Acked(r) == pc[r] = "done" /\ resp[r].status = 200

----
\* C1: for appends made one after the other, whatever the sizes of the
\* batches, the buffer holds at most maxDataPoints elements whenever no
\* append operation is under way (the handler that appended has finished
\* its trim).
C1_Capacity ==
    (\A r \in Reqs : ~InAppend(r)) => Len(iqStore.elems) <= maxDataPoints

\* A batch larger than the capacity has been appended and acknowledged, and
\* the buffer is full.
C1_Witness ==
    /\ \A r \in Reqs : ~InAppend(r)
    /\ \E r \in Reqs : ValidPost(r) /\ Acked(r) /\ Len(Batch(r)) > maxDataPoints
    /\ Len(iqStore.elems) = maxDataPoints

----
\* C2: an append to the buffer `old` of the batch b leaves the last
\* min(maxDataPoints, len(old)+len(b)) elements of old ++ b: at the moment
\* the handler is about to acknowledge, the buffer is that sequence, where
\* old is the buffer the handler found.
C2_AppendResult ==
    \A r \in Reqs :
        (ValidPost(r) /\ pc[r] = "respond") =>
            LET all == base[r].elems \o Batch(r)
            IN  iqStore.elems = LastN(all, Min(maxDataPoints, Len(all)))

\* Some of the old elements and all of the batch survive an eviction.
C2_Witness ==
    \E r \in Reqs :
        /\ ValidPost(r) /\ pc[r] = "respond"
        /\ Len(base[r].elems) > 1 /\ Len(Batch(r)) > 0
        /\ Len(base[r].elems) + Len(Batch(r)) > maxDataPoints
        /\ Len(Batch(r)) < maxDataPoints

\* More than maxDataPoints elements appended to the empty buffer.
C2_WitnessOverfull ==
    \E r \in Reqs :
        /\ ValidPost(r) /\ pc[r] = "respond"
        /\ base[r].elems = <<>> /\ Len(Batch(r)) > maxDataPoints

----
\* The requests whose batch holds x, and the elements of s that come from
\* the batch of p, in the order they have in s.
Owns(p, x) == ValidPost(p) /\ \E i \in 1..Len(Batch(p)) : Batch(p)[i] = x
ElemsOf(s, p) == SelectSeq(s, LAMBDA x : Owns(p, x))

IndexIn(b, x) == CHOOSE i \in 1..Len(b) : b[i] = x

\* t is a suffix of s.
IsSuffix(t, s) == Len(t) <= Len(s) /\ t = LastN(s, Len(t))

\* s lists the elements of earlier batches before those of later ones,
\* and the elements of one batch in the order of the batch.
InBatchOrder(s) ==
    \A i, j \in 1..Len(s) :
        i < j =>
            \E p, q \in Reqs :
                /\ Owns(p, s[i]) /\ Owns(q, s[j])
                /\ \/ p < q
                   \/ p = q /\ IndexIn(Batch(p), s[i]) < IndexIn(Batch(q), s[j])

\* C5: with the batches appended one after the other (request p before
\* request q when p < q), the buffer and every snapshot returned list the
\* surviving elements of an earlier batch before those of a later batch and
\* keep the order within a batch; and the trim removes only a prefix of the
\* buffer.
C5_OrderPreserved ==
    [][/\ InBatchOrder(iqStore'.elems)
       /\ \A g \in Reqs :
            (IsGet(g) /\ pc'[g] = "done") => InBatchOrder(resp'[g].body.elems)
       /\ \A r \in Reqs :
            (pc[r] = "trimWrite" /\ pc'[r] # pc[r]) =>
                IsSuffix(iqStore'.elems, iqStore.elems)]_vars

\* A snapshot holds the rest of a partly evicted batch followed by a later
\* batch.
C5_Witness ==
    \E g, p, q \in Reqs :
        /\ IsGet(g) /\ pc[g] = "done" /\ p < q /\ q < g
        /\ ElemsOf(resp[g].body.elems, p) # <<>>
        /\ ElemsOf(resp[g].body.elems, p) # Batch(p)
        /\ Len(Batch(q)) > 1
        /\ ElemsOf(resp[g].body.elems, q) = Batch(q)

----
\* C3: a snapshot returned by GET /api/iq-data is a buffer as it is before
\* or after a whole append-and-evict: it holds at most maxDataPoints
\* elements, and of every batch it holds all, nothing, or what eviction
\* left of it (a suffix).
C3_SnapshotAtomic ==
    \A g \in Reqs :
        (IsGet(g) /\ pc[g] = "done") =>
            /\ Len(resp[g].body.elems) <= maxDataPoints
            /\ \A p \in Reqs :
                 ValidPost(p) => IsSuffix(ElemsOf(resp[g].body.elems, p), Batch(p))

----
\* The append operation of the buffer contract.
SerialAppend(s, b) == LastN(s \o b, Min(maxDataPoints, Len(s) + Len(b)))

\* The buffer after the batches of the requests order[1], order[2], ... are
\* appended one after the other to s.
RECURSIVE SerialRun(_, _)
SerialRun(s, order) ==
    IF order = <<>> THEN s
    ELSE SerialRun(SerialAppend(s, Batch(Head(order))), Tail(order))

\* The orders in which the requests of the set S can be served.
Orders(S) ==
    {o \in [1..Cardinality(S) -> S] : \A i, j \in DOMAIN o : o[i] = o[j] => i = j}

\* The POST handlers with a valid batch that have run.
Appended == {r \in Reqs : ValidPost(r) /\ pc[r] = "done"}

\* C4: when the POST handlers have returned, the buffer is what their
\* appends (with eviction) give in some serial order: no batch is lost or
\* overwritten, no two batches are interleaved, the length is at most
\* maxDataPoints.
C4_Serializable ==
    InFlight = {} =>
        \E o \in Orders(Appended) : iqStore.elems = SerialRun(<<>>, o)

----
\* C6: a POST /webhook whose body is not an array of samples never changes
\* the buffer, and is answered 400 {"error": "Invalid JSON format"}.
C6_MalformedRejected ==
    [][\A r \in Reqs :
         (pc'[r] # pc[r] /\ req'[r].method = "POST" /\ req'[r].path = "/webhook"
            /\ ~IsSampleArray(req'[r].body)) =>
              /\ iqStore' = iqStore
              /\ pc'[r] = "done" =>
                   /\ resp'[r].status = 400
                   /\ resp'[r].body = Payload("error", <<>>, "Invalid JSON format")]_vars

\* {"not": "an array"} was posted to a buffer that holds samples, and answered.
C6_Witness ==
    \E r \in Reqs :
        /\ IsPost(r) /\ req[r].body = ObjectBody /\ pc[r] = "done"
        /\ resp[r].status = 400
        /\ iqStore.elems # <<>>

----
\* The number of samples in the valid batches of the requests p+1 .. g-1.
RECURSIVE AppendedBetween(_, _)
AppendedBetween(p, g) ==
    IF p + 1 >= g THEN 0
    ELSE (IF ValidPost(g - 1) THEN Len(Batch(g - 1)) ELSE 0)
         + AppendedBetween(p, g - 1)

\* What is left of the batch of p once n more samples have been appended.
Survivors(p, n) ==
    LastN(Batch(p), Max(0, Min(Len(Batch(p)), maxDataPoints - n)))

\* C7: a POST /webhook with a valid batch is answered 200
\* {"status": "received"}, and only once the batch is in the buffer: when
\* the handler has returned, the buffer ends with the batch (or with the
\* maxDataPoints last elements of it) until a later request appends, and a
\* GET that starts after the 200 returns, of that batch, exactly what the
\* appends made between the two have not evicted.
C7_AckAfterApply ==
    \A p \in Reqs :
        (ValidPost(p) /\ pc[p] = "done") =>
            /\ resp[p].status = 200
            /\ resp[p].body = Payload("status", <<>>, "received")
            /\ (\A q \in Reqs : q > p => pc[q] = "new") =>
                   IsSuffix(Survivors(p, 0), iqStore.elems)
            /\ \A g \in Reqs :
                   (g > p /\ IsGet(g) /\ pc[g] = "done") =>
                       ElemsOf(resp[g].body.elems, p)
                           = Survivors(p, AppendedBetween(p, g))

\* A GET after an acknowledged batch and one later append returns a strict,
\* non-empty part of the batch.
C7_Witness ==
    \E p, g \in Reqs :
        /\ ValidPost(p) /\ Acked(p)
        /\ g > p /\ IsGet(g) /\ pc[g] = "done"
        /\ AppendedBetween(p, g) > 0
        /\ ElemsOf(resp[g].body.elems, p) # <<>>
        /\ ElemsOf(resp[g].body.elems, p) # Batch(p)

----
\* C8: the GET handler does not change the buffer, the snapshot it returns
\* is the buffer's contents in order, and it is the snapshot returned by
\* every earlier GET since which the buffer has not been written.
C8_GetReadOnly ==
    [][\A g \in Reqs :
         (req'[g].method = "GET" /\ req'[g].path = "/api/iq-data"
            /\ pc'[g] # pc[g]) =>
              /\ iqStore' = iqStore
              /\ pc'[g] = "done" =>
                   /\ resp'[g].body.elems = iqStore.elems
                   /\ \A h \in Reqs :
                        (IsGet(h) /\ pc[h] = "done" /\ snapVer[h] = ver) =>
                            resp[h].body = resp'[g].body]_vars

\* Two GETs have returned the same non-empty snapshot, no write between.
C8_Witness ==
    \E g, h \in Reqs :
        /\ g # h /\ IsGet(g) /\ IsGet(h) /\ pc[g] = "done" /\ pc[h] = "done"
        /\ snapVer[g] = snapVer[h]
        /\ resp[g].body.elems # <<>>
        /\ resp[g].body = resp[h].body

----
\* The headers every response carries.
RequiredHeaders ==
    [h \in HeaderNames |->
        CASE h = "Access-Control-Allow-Origin" -> "*"
          [] h = "Access-Control-Allow-Methods" -> "POST, GET, OPTIONS"
          [] h = "Access-Control-Allow-Headers" -> "Content-Type, Authorization"
          [] h = "Access-Control-Allow-Credentials" -> "true"]

\* C9: an OPTIONS request, to either path, is answered by the middleware:
\* it never reaches the router or a handler, never changes the buffer, and
\* its response is 204 without body, with the CORS headers (origin "*").
C9_Preflight ==
    [][\A r \in Reqs :
         (req'[r].method = "OPTIONS" /\ pc'[r] # pc[r]) =>
              /\ iqStore' = iqStore
              /\ pc'[r] \in {"mw", "done"}
              /\ pc'[r] = "done" =>
                   resp'[r] = [status |-> 204, headers |-> RequiredHeaders,
                               body |-> NoBody]]_vars

\* OPTIONS to both paths answered, with samples in the buffer.
C9_Witness ==
    /\ iqStore.elems # <<>>
    /\ \A p \in Paths :
         \E r \in Reqs :
            /\ IsOptions(r) /\ req[r].path = p /\ pc[r] = "done"
            /\ resp[r].status = 204

----
\* C10: every answer of GET /api/iq-data is 200 with a JSON array; when the
\* handler reads the buffer before anything was ever stored in it, the
\* answer is the empty array.
C10_GetSucceeds ==
    \A g \in Reqs :
        (IsGet(g) /\ pc[g] = "done") =>
            /\ resp[g].status = 200
            /\ resp[g].body.kind = "array"
            /\ snapVer[g] = 0 => resp[g].body = Payload("array", <<>>, "")

\* A GET answered with the empty array by a server that has had no POST.
C10_Witness ==
    \E g \in Reqs :
        /\ IsGet(g) /\ pc[g] = "done"
        /\ \A p \in Reqs : pc[p] # "new" => ~IsPost(p)
        /\ resp[g].body = Payload("array", <<>>, "")

----
\* C11: with capacity 3, POST of a one-element batch to the empty buffer
\* followed by POST of a three-element batch makes the GET that follows
\* return exactly the three elements of the second batch, in order.
C11_EndToEnd ==
    (/\ maxDataPoints = 3
     /\ ValidPost(1) /\ Len(Batch(1)) = 1
     /\ ValidPost(2) /\ Len(Batch(2)) = 3
     /\ IsGet(3) /\ pc[3] = "done") =>
        /\ resp[3].status = 200
        /\ resp[3].body = Payload("array", Batch(2), "")

\* The scenario has run: both POSTs acknowledged, the GET answered.
C11_Witness ==
    /\ maxDataPoints = 3
    /\ ValidPost(1) /\ Len(Batch(1)) = 1 /\ Acked(1)
    /\ ValidPost(2) /\ Len(Batch(2)) = 3 /\ Acked(2)
    /\ IsGet(3) /\ pc[3] = "done"
    /\ Len(resp[3].body.elems) = 3

----
\* C16: a POST /webhook whose body is the empty array is answered 200
\* {"status": "received"}, and none of its steps changes the contents (or
\* the length) of the buffer.
C16_EmptyBatch ==
    [][\A r \in Reqs :
         (pc'[r] # pc[r] /\ req'[r].method = "POST" /\ req'[r].path = "/webhook"
            /\ req'[r].body = ArrayBody(<<>>)) =>
              /\ iqStore'.elems = iqStore.elems
              /\ pc'[r] = "done" =>
                   /\ resp'[r].status = 200
                   /\ resp'[r].body = Payload("status", <<>>, "received")]_vars

\* The empty array was posted to a buffer that holds samples, and answered.
C16_Witness ==
    \E r \in Reqs :
        /\ IsPost(r) /\ req[r].body = ArrayBody(<<>>) /\ Acked(r)
        /\ iqStore.elems # <<>>

----
\* C12: with batch size n, the k-th batch the generator generates (k = 0, 1,
\* 2, ...) holds exactly the sample indices k*n .. k*n+n-1 in increasing
\* order, so consecutive batches leave no gap and do not overlap.
C12_BatchesContiguous ==
    \A k \in 1..Len(gBatches) :
        /\ Len(gBatches[k].data) = gPoints
        /\ \A i \in 1..gPoints :
              gBatches[k].data[i] = (k - 1) * gPoints + (i - 1)

C12_Witness ==
    /\ gPoints = 2
    /\ Len(gBatches) = 3
    /\ gBatches[3].data = <<4, 5>>
    /\ gBatches[1].failed

----
\* C13: when sendToWebhook fails (transport error, lost response or a status
\* other than 200) the generator does not terminate and does not resend the
\* failed batch: it goes to its sleep with currentTime already advanced, and
\* the next batch starts where the failed one ended.  No batch is sent more
\* than once.
Terminated == gPc \in {"exit", "panic"}

C13_FailureHandling ==
    \A k \in 1..Len(gBatches) :
        /\ gBatches[k].sends <= 1
        /\ gBatches[k].failed =>
              /\ ~Terminated
              /\ gBatches[k].sends = 1
              /\ IF k < Len(gBatches)
                   THEN gBatches[k + 1].start = gBatches[k].start + gPoints
                   ELSE /\ gPc \in {"sleep", "loop"}
                        /\ currentTime = gBatches[k].start + gPoints

\* A send failed by a transport error, another by a lost response, and the
\* generator went on to send the third batch.
C13_Witness ==
    /\ gPoints = 2
    /\ Len(gBatches) = 3
    /\ gBatches[1].failed
    /\ gBatches[2].failed
    /\ \E r \in Reqs : IsPost(r) /\ Acked(r) /\ Batch(r) = gBatches[2].data
    /\ gPc = "wait"
    /\ gBatches[3].start = 4
    /\ gBatches[3].sends = 1

----
\* C14: with one generator as the only client posting to /webhook, every
\* snapshot a GET /api/iq-data returns has strictly increasing sample times,
\* and while no send has failed it is exactly the most recent
\* min(maxDataPoints, total sent) consecutive sample indices, the total
\* counted with or without the batch whose send is still under way.
StrictlyIncreasing(s) == \A i \in 1..(Len(s) - 1) : s[i] < s[i + 1]

NoSendFailed == \A k \in 1..Len(gBatches) : ~gBatches[k].failed

\* The totals sent so far.
SentTotals ==
    IF gPc \in {"send", "wait"} THEN {currentTime - gPoints, currentTime}
                                ELSE {currentTime}

\* The most recent min(maxDataPoints, total) of the indices 0 .. total-1.
Recent(total) ==
    LET n == Min(maxDataPoints, total) IN [i \in 1..n |-> total - n + i - 1]

C14_SystemOrdering ==
    [][\A g \in Reqs :
         (IsGet(g) /\ pc[g] # "done" /\ pc'[g] = "done") =>
            LET snap == resp'[g].body.elems IN
            /\ StrictlyIncreasing(snap)
            /\ NoSendFailed => \E total \in SentTotals : snap = Recent(total)]_vars

----
\* C15: a failed fetch (an exception or a response that is not ok) sets
\* useTestData, and from then on useTestData stays true, no request is sent
\* to the server, and every call of fetchData runs generateTestData.
C15_FallbackAbsorbing ==
    [][/\ (vPending' < vPending /\ vTestRuns' # vTestRuns) => useTestData'
       /\ useTestData =>
             /\ useTestData'
             /\ vRequests' = vRequests
             /\ vTicks' # vTicks => vTestRuns' = vTestRuns + 1]_vars

\* In test mode after a failure, with ticks served by generateTestData and a
\* later answer of the server that arrived all the same.
C15_Witness ==
    /\ useTestData
    /\ vTestRuns >= 3
    /\ vTicks > vRequests
    /\ vPending = 0
    /\ vRequests >= 2
    /\ iqData \in ServerData

\* C17: every execution of generateTestData leaves in iqData the last
\* testWindow points of the previous points followed by numPoints new ones,
\* so at most testWindow points, and the new points' times go on from the
\* last previous point's time in steps of testStep (from 0 when there was
\* no point).
C17_TestWindow ==
    [][vTestRuns' # vTestRuns =>
         LET first == IF iqData = <<>> THEN 0 ELSE iqData[Len(iqData)] + testStep
             new   == [i \in 1..numPoints |-> first + (i - 1) * testStep]
             all   == iqData \o new
             kept  == Min(testWindow, Len(all))
         IN /\ Len(iqData') <= testWindow
            /\ Len(iqData') = kept
            /\ \A i \in 1..kept : iqData'[i] = all[Len(all) - kept + i]]_vars

\* The window is full and slides: the points came from test data alone, or
\* from a long answer of the server.
C17_Witness ==
    /\ vTestRuns >= 11
    /\ Len(iqData) = testWindow
    /\ iqData[1] = 10 * testStep
    /\ iqData[testWindow] = 109 * testStep

====
